---- MODULE Spec2Model ----
(***************************************************************************)
(* Model of src/main.py: the ODriveWorker background thread (run), the     *)
(* command methods the GUI thread calls on it (set_state, update_tuning,   *)
(* set_input, clear_errors, reboot) and the MainWindow handlers that use   *)
(* them.                                                                   *)
(*                                                                         *)
(* Two threads share self.odrv without any lock.  Every access to the      *)
(* device (an attribute read or write on the remote object tree, or a      *)
(* remote call) is blocking I/O and is one atomic step of the model; each  *)
(* such statement first evaluates self.odrv, so it raises AttributeError   *)
(* when the handle is None at that moment, and raises a device error when  *)
(* the device does not answer.                                             *)
(*                                                                         *)
(* Spec is the two threads.  The buttons are enabled by update_status from *)
(* status events queued to the GUI thread, so the window's view of the     *)
(* connection lags the worker by any number of steps, and the slider and   *)
(* the setpoint entry are never disabled: a handler may start in any state *)
(* of the worker.  Of the widgets, Spec keeps what the command path reads: *)
(* the index of mode_select, and the texts of the line edits as inputs of  *)
(* the handler that reads them.                                            *)
(*                                                                         *)
(* SpecGui is the window's update_telemetry slot, fed any sequence of      *)
(* init_config and telemetry events.                                       *)
(*                                                                         *)
(* SpecWidgets is that slot together with the setpoint slider, recording   *)
(* the event handled last and the worker calls its handler made.           *)
(*                                                                         *)
(* SpecWorker is the worker thread alone with the device, scheduled        *)
(* fairly: run() loops for as long as the program lives.                   *)
(*                                                                         *)
(* Floats are kept in hundredths (2.5 is 250).                             *)
(***************************************************************************)
EXTENDS Integers, Sequences, FiniteSets, TLC

\* ------------------------------------------------------------------ bounds
\* Number of handles find_any may return in one run of the model.
MaxHandles == 2

\* ------------------------------------------------------- program constants
AXIS_STATE_IDLE == 1
AXIS_STATE_CLOSED_LOOP_CONTROL == 8
CONTROL_MODE_POSITION_CONTROL == 3
CONTROL_MODE_VELOCITY_CONTROL == 2
INPUT_MODE_PASSTHROUGH == 1

None == 0
Handles == 1..MaxHandles

\* The ten attributes read by one telemetry pass, in the order of the dict
\* literal of run.
TelemetryFields ==
    <<"iq", "vbus", "pos", "vel", "shadow", "error", "enc_error", "state",
      "ctrl_mode", "input_mode">>

\* The four attributes of the one-time read-back after discovery.
ConfigFields == <<"pos_gain", "vel_gain", "vel_integrator_gain", "mode">>

\* Mutant of TuningWrites: the gains are written before the control mode.
TuningWrites_gains_first ==
    <<"pos_gain", "vel_gain", "vel_integrator_gain", "control_mode", "input_mode",
      "vel_limit", "input_pos", "input_vel">>

\* The writes of update_tuning, in statement order.
TuningWrites ==
    <<"control_mode", "input_mode", "vel_limit", "pos_gain", "vel_gain",
      "vel_integrator_gain", "input_pos", "input_vel">>

\* The three error attributes clear_errors zeroes, in statement order.
ErrorWrites == <<"axis0.error", "encoder.error", "motor.error">>

\* Texts a user may have typed into a line edit.
TextValues == {"2.5", "abc"}
\* Texts tried on the setpoint entry: "nan" passes float() and fails int().
SetpointTexts == {"2.5", "abc", "nan"}
\* Slider positions tried (the slider holds hundredths).
SliderValues == {-50, 150}
\* Values the device may report for encoder.pos_estimate.
PosValues == {0, 325}
\* Gains the device may report in the read-back (hundredths).
GainValues == {0, 250}
\* control_mode values the device may report in the read-back.
ModeValues == {1, 2, 3}
\* axis states a snapshot may carry (1 = IDLE, 8 = CLOSED_LOOP).
StateValues == {1, 8}
\* Telemetry snapshots delivered to the window in one run of the model.
MaxDelivered == 203
\* Telemetry snapshots delivered while the widgets are looked at.
MaxShown == 2

\* MainWindow.max_points
max_points == 200

VARIABLES
    \* --- shared between the threads
    odrv,          \* ODriveWorker.odrv: None or a handle
    \* --- environment
    devOk,         \* the device answers the next access
    found,         \* number of handles find_any has returned so far
    \* --- worker thread (ODriveWorker.run)
    w_pc,          \* position in run
    w_data,        \* the dict being built (init_cfg or data): one entry per read
    \* --- what the worker has published
    lastStatus,    \* last message emitted on connection_status
    lastData,      \* last payload emitted on data_received since find_any last
                   \* returned a handle
    initCount,     \* init_config events emitted since find_any last returned a
                   \* handle
    failedSince,   \* a telemetry pass failed and no discovery has succeeded since
    \* --- GUI thread
    g_pc,          \* position in the running handler ("idle": event loop)
    g_handler,     \* the handler the event loop dispatched
    g_args,        \* arguments of the worker method being executed
    g_k,           \* index of the next write of a multi-write method
    g_tmp,         \* value read from the device and not yet written
    g_txt,         \* the texts the handler read from its line edits
    g_log,         \* device accesses performed by the running handler
    g_hs,          \* per worker method, the handles its accesses went through
    g_exc,         \* the last exception of the handler: what, and at which step
    mode_index,    \* mode_select.currentIndex()
    \* --- MainWindow state behind update_telemetry
    iq_data, vbus_data, pos_data, vel_data,   \* the four history lists
    current_axis_state,
    pos_g_input, vel_g_input, vel_i_input,    \* texts of the gain line edits
    target_input,                             \* text of the setpoint line edit
    slider_range, slider_value,               \* setpoint_slider: +-range, value
    delivered,     \* number of telemetry snapshots delivered to the window
    handled,       \* the event the window handled last (and the mode it carried)
    sent           \* the worker calls the handler of that event made

workerVars == <<w_pc, w_data>>
pubVars == <<lastStatus, lastData, initCount, failedSince>>
guiVars == <<g_pc, g_handler, g_args, g_k, g_tmp, g_txt, g_log, g_hs, g_exc, mode_index>>
envVars == <<devOk, found>>
histVars == <<iq_data, vbus_data, pos_data, vel_data>>
widgetVars == <<histVars, current_axis_state, pos_g_input, vel_g_input, vel_i_input,
                target_input, slider_range, slider_value, delivered, handled, sent>>
handlerVars == <<g_pc, g_handler, g_args, g_k, g_tmp, g_txt, g_log, g_hs, g_exc>>
vars == <<odrv, envVars, workerVars, pubVars, guiVars, widgetVars>>

NoData == [kind |-> "none", fields |-> <<>>]

NoExc == [err |-> "none", at |-> "none"]

NoEvent == [kind |-> "none", mode |-> 0]

NoArgs == [state |-> 0, value |-> 0, is_pos |-> FALSE, gains |-> <<>>, mode |-> 0]

\* The command methods of ODriveWorker.
Methods == {"set_state", "update_tuning", "set_input", "clear_errors", "reboot"}

\* No access made yet by any method of the running handler.
NoHandles == [m \in Methods |-> {}]

Init ==
    /\ odrv = None
    /\ devOk \in BOOLEAN
    /\ found = 0
    /\ w_pc = "loop"
    /\ w_data = <<>>
    /\ lastStatus = "none"
    /\ lastData = NoData
    /\ initCount = 0
    /\ failedSince = FALSE
    /\ g_pc = "idle"
    /\ g_handler = "none"
    /\ g_args = NoArgs
    /\ g_k = 0
    /\ g_tmp = 0
    /\ g_txt = <<>>
    /\ g_log = <<>>
    /\ g_hs = NoHandles
    /\ g_exc = NoExc
    /\ mode_index = 0
    /\ iq_data = <<>> /\ vbus_data = <<>> /\ pos_data = <<>> /\ vel_data = <<>>
    /\ current_axis_state = 0
    /\ pos_g_input = "20.0"
    /\ vel_g_input = "0.0005"
    /\ vel_i_input = "0.001"
    /\ target_input = "0.0"
    /\ slider_range = 1000
    /\ slider_value = 0
    /\ delivered = 0
    /\ handled = NoEvent
    /\ sent = <<>>

\* ------------------------------------------------------------- environment
\* The device (or its USB link) starts or stops answering.
DeviceChange ==
    /\ devOk' = ~devOk
    /\ UNCHANGED <<widgetVars, odrv, found, workerVars, pubVars, guiVars>>

\* A statement `self.odrv.<attr>...` succeeds iff the handle is there when it
\* is evaluated and the device answers.
AccessOk == odrv # None /\ devOk

\* ------------------------------------------------------ ODriveWorker.run
\* while self.running: if self.odrv is None: ... (running is never cleared)
Run_loop ==
    /\ w_pc = "loop"
    /\ w_pc' = IF odrv = None THEN "emit_searching" ELSE "pass"
    /\ w_data' = <<>>
    /\ UNCHANGED <<widgetVars, odrv, envVars, pubVars, guiVars>>

\* self.connection_status.emit(False, "Searching...")
Run_emit_searching ==
    /\ w_pc = "emit_searching"
    /\ lastStatus' = "Searching"
    /\ w_pc' = "find"
    /\ UNCHANGED <<widgetVars, odrv, envVars, w_data, lastData, initCount, failedSince, guiVars>>

\* self.odrv = odrive.find_any(timeout=2): a handle, or no device in time
Run_find_any ==
    /\ w_pc = "find"
    /\ IF devOk /\ found < MaxHandles
       THEN /\ found' = found + 1
            /\ odrv' = found + 1
            /\ failedSince' = FALSE
            /\ lastData' = NoData
            /\ initCount' = 0
            /\ w_pc' = "readback"
       ELSE /\ w_pc' = "backoff"
            /\ UNCHANGED <<found, odrv, failedSince, lastData, initCount>>
    /\ w_data' = <<>>
    /\ UNCHANGED <<widgetVars, devOk, lastStatus, guiVars>>

\* init_cfg = {...}: the next of the four configuration reads
Run_readback ==
    /\ w_pc = "readback"
    /\ IF AccessOk
       THEN /\ w_data' = Append(w_data, [f |-> ConfigFields[Len(w_data) + 1], h |-> odrv])
            /\ w_pc' = IF Len(w_data) + 1 = Len(ConfigFields) THEN "emit_init" ELSE "readback"
       ELSE /\ w_pc' = "backoff"
            /\ UNCHANGED w_data
    /\ UNCHANGED <<widgetVars, odrv, envVars, pubVars, guiVars>>

\* self.data_received.emit({"init_config": init_cfg})
Run_emit_init ==
    /\ w_pc = "emit_init"
    /\ lastData' = [kind |-> "init_config", fields |-> w_data]
    /\ initCount' = initCount + 1
    /\ w_pc' = "emit_connected"
    /\ UNCHANGED <<widgetVars, odrv, envVars, w_data, lastStatus, failedSince, guiVars>>

\* self.connection_status.emit(True, "Connected"), then on to the try of line 56
Run_emit_connected ==
    /\ w_pc = "emit_connected"
    /\ lastStatus' = "Connected"
    /\ w_pc' = "pass"
    /\ w_data' = <<>>
    /\ UNCHANGED <<widgetVars, odrv, envVars, lastData, initCount, failedSince, guiVars>>

\* except: time.sleep(1); continue
Run_backoff ==
    /\ w_pc = "backoff"
    /\ w_pc' = "loop"
    /\ UNCHANGED <<widgetVars, odrv, envVars, w_data, pubVars, guiVars>>

\* data = {...}: the next of the ten telemetry reads
Run_read ==
    /\ w_pc = "pass"
    /\ IF AccessOk
       THEN /\ w_data' = Append(w_data, [f |-> TelemetryFields[Len(w_data) + 1], h |-> odrv])
            /\ w_pc' = IF Len(w_data) + 1 = Len(TelemetryFields) THEN "emit_data" ELSE "pass"
       ELSE /\ w_pc' = "except"
            /\ UNCHANGED w_data
    /\ UNCHANGED <<widgetVars, odrv, envVars, pubVars, guiVars>>

\* self.data_received.emit(data)
Run_emit_data ==
    /\ w_pc = "emit_data"
    /\ lastData' = [kind |-> "telemetry", fields |-> w_data]
    /\ w_pc' = "sleep"
    /\ UNCHANGED <<widgetVars, odrv, envVars, w_data, lastStatus, initCount, failedSince, guiVars>>

\* time.sleep(0.05)
Run_sleep ==
    /\ w_pc = "sleep"
    /\ w_pc' = "loop"
    /\ UNCHANGED <<widgetVars, odrv, envVars, w_data, pubVars, guiVars>>

\* Mutant of Run_except: the handler forgets to discard the handle.
Run_except_keeps_handle ==
    /\ w_pc = "except"
    /\ failedSince' = TRUE
    /\ w_pc' = "except_emit"
    /\ UNCHANGED <<widgetVars, odrv, envVars, w_data, lastStatus, lastData, initCount, guiVars>>

\* except: self.odrv = None
Run_except ==
    /\ w_pc = "except"
    /\ odrv' = None
    /\ failedSince' = TRUE
    /\ w_pc' = "except_emit"
    /\ UNCHANGED <<widgetVars, envVars, w_data, lastStatus, lastData, initCount, guiVars>>

\* Mutant of Run_except_emit: the handler also publishes what the pass had
\* read before it failed.
Run_except_emit_partial ==
    /\ w_pc = "except_emit"
    /\ lastStatus' = "Disconnected"
    /\ lastData' = [kind |-> "telemetry", fields |-> w_data]
    /\ w_pc' = "loop"
    /\ UNCHANGED <<widgetVars, odrv, envVars, w_data, initCount, failedSince, guiVars>>

\* self.connection_status.emit(False, "Disconnected")
Run_except_emit ==
    /\ w_pc = "except_emit"
    /\ lastStatus' = "Disconnected"
    /\ w_pc' = "loop"
    /\ UNCHANGED <<widgetVars, odrv, envVars, w_data, lastData, initCount, failedSince, guiVars>>

Worker ==
    \/ Run_loop
    \/ Run_emit_searching
    \/ Run_find_any
    \/ Run_readback
    \/ Run_emit_init
    \/ Run_emit_connected
    \/ Run_backoff
    \/ Run_read
    \/ Run_emit_data
    \/ Run_sleep
    \/ Run_except
    \/ Run_except_emit

\* ------------------------------------------------------------- GUI thread
\* float(text): the texts float() accepts, and the value it returns
IsFloat(t) == t \in {"2.5", "nan"}
\* int(val * 100) raises ValueError for nan
IsFinite(t) == t = "2.5"
FloatValue(t) == IF t = "2.5" THEN 250 ELSE 0

LogEntry(a, f, v) == [a |-> a, f |-> f, v |-> v]

\* What a step of a worker method leaves alone besides the handler's locals.
MethodFrame == UNCHANGED <<widgetVars, odrv, envVars, workerVars, pubVars, mode_index>>

\* The worker method a position of the GUI thread lies in.
MethodOf(pc) ==
    CASE pc \in {"ss_check", "ss_write"} -> "set_state"
      [] pc \in {"ut_check", "ut_write", "ut_read"} -> "update_tuning"
      [] pc \in {"si_check", "si_write"} -> "set_input"
      [] pc \in {"ce_check", "ce_write", "ce_call"} -> "clear_errors"
      [] pc \in {"rb_check", "rb_call", "rb_discard"} -> "reboot"
      [] OTHER -> "none"

\* One more device access by the running handler, through the handle stored
\* at that moment.
Access(a, f, v) ==
    /\ g_log' = Append(g_log, LogEntry(a, f, v))
    /\ g_hs' = [g_hs EXCEPT ![MethodOf(g_pc)] = @ \cup {odrv}]

\* The statement raised and nothing catches it: AttributeError when self.odrv
\* is None, the library's error when the device does not answer.  PySide
\* prints the traceback and the event loop goes on.
Raise ==
    /\ g_pc' = "ret"
    /\ g_exc' = [err |-> IF odrv = None THEN "AttributeError" ELSE "DeviceError",
                 at |-> g_pc]
    /\ UNCHANGED <<g_log, g_hs>>

\* The statement raised inside try: ... except: pass
Swallow ==
    /\ g_exc' = [err |-> "swallowed", at |-> g_pc]
    /\ UNCHANGED <<g_log, g_hs>>

\* --- ODriveWorker.set_state(state_code)
\* Mutant of set_state_check: the guard `if self.odrv:` is left out.
set_state_check_unguarded ==
    /\ g_pc = "ss_check"
    /\ g_pc' = "ss_write"
    /\ UNCHANGED <<g_handler, g_args, g_k, g_tmp, g_txt, g_log, g_hs, g_exc>>
    /\ MethodFrame

\* if self.odrv:
set_state_check ==
    /\ g_pc = "ss_check"
    /\ g_pc' = IF odrv # None THEN "ss_write" ELSE "ret"
    /\ UNCHANGED <<g_handler, g_args, g_k, g_tmp, g_txt, g_log, g_hs, g_exc>>
    /\ MethodFrame

\* self.odrv.axis0.requested_state = state_code
set_state_write ==
    /\ g_pc = "ss_write"
    /\ IF AccessOk
       THEN /\ Access("write", "requested_state", g_args.state)
            /\ g_pc' = "ret"
            /\ UNCHANGED g_exc
       ELSE Raise
    /\ UNCHANGED <<g_handler, g_args, g_k, g_tmp, g_txt>>
    /\ MethodFrame

set_state == set_state_check \/ set_state_write

\* --- ODriveWorker.update_tuning(pos_g, vel_g, vel_i_g, vel_lim, mode)
\* The value the k-th write of update_tuning stores.
TuningValue(k) ==
    CASE k = 1 -> g_args.mode
      [] k = 2 -> INPUT_MODE_PASSTHROUGH
      [] k = 3 -> g_args.gains[4]
      [] k = 4 -> g_args.gains[1]
      [] k = 5 -> g_args.gains[2]
      [] k = 6 -> g_args.gains[3]
      [] k = 7 -> g_tmp
      [] OTHER -> 0

\* if self.odrv:
update_tuning_check ==
    /\ g_pc = "ut_check"
    /\ IF odrv # None
       THEN g_pc' = "ut_write" /\ g_k' = 1
       ELSE g_pc' = "at_sleep" /\ UNCHANGED g_k
    /\ UNCHANGED <<g_handler, g_args, g_tmp, g_txt, g_log, g_hs, g_exc>>
    /\ MethodFrame

\* the next of the eight assignments of lines 82-93
update_tuning_write ==
    /\ g_pc = "ut_write"
    /\ IF AccessOk
       THEN /\ Access("write", TuningWrites[g_k], TuningValue(g_k))
            /\ g_k' = g_k + 1
            /\ g_pc' = CASE g_k = Len(TuningWrites) -> "at_sleep"
                         [] TuningWrites[g_k + 1] = "input_pos" -> "ut_read"
                         [] OTHER -> "ut_write"
            /\ UNCHANGED g_exc
       ELSE /\ Raise
            /\ UNCHANGED g_k
    /\ UNCHANGED <<g_handler, g_args, g_tmp, g_txt>>
    /\ MethodFrame

\* the right-hand side of line 92: self.odrv.axis0.encoder.pos_estimate
update_tuning_read ==
    /\ g_pc = "ut_read"
    /\ IF AccessOk
       THEN /\ \E p \in PosValues :
                 /\ g_tmp' = p
                 /\ Access("read", "pos_estimate", p)
            /\ g_pc' = "ut_write"
            /\ UNCHANGED g_exc
       ELSE /\ Raise
            /\ UNCHANGED g_tmp
    /\ UNCHANGED <<g_handler, g_args, g_k, g_txt>>
    /\ MethodFrame

update_tuning == update_tuning_check \/ update_tuning_write \/ update_tuning_read

\* --- ODriveWorker.set_input(value, is_pos_mode)
\* if self.odrv:
set_input_check ==
    /\ g_pc = "si_check"
    /\ g_pc' = IF odrv # None THEN "si_write" ELSE "ret"
    /\ UNCHANGED <<g_handler, g_args, g_k, g_tmp, g_txt, g_log, g_hs, g_exc>>
    /\ MethodFrame

\* if is_pos_mode: ...input_pos = value else: ...input_vel = value
set_input_write ==
    /\ g_pc = "si_write"
    /\ IF AccessOk
       THEN /\ Access("write", IF g_args.is_pos THEN "input_pos" ELSE "input_vel",
                      g_args.value)
            /\ g_pc' = "ret"
            /\ UNCHANGED g_exc
       ELSE Raise
    /\ UNCHANGED <<g_handler, g_args, g_k, g_tmp, g_txt>>
    /\ MethodFrame

set_input == set_input_check \/ set_input_write

\* --- ODriveWorker.clear_errors()
\* Where clear_errors returns to: apply_tuning goes on to parse its texts.
AfterClearErrors == IF g_handler = "apply_tuning" THEN "at_parse" ELSE "ret"

\* if self.odrv:
clear_errors_check ==
    /\ g_pc = "ce_check"
    /\ IF odrv # None
       THEN g_pc' = "ce_write" /\ g_k' = 1
       ELSE g_pc' = AfterClearErrors /\ UNCHANGED g_k
    /\ UNCHANGED <<g_handler, g_args, g_tmp, g_txt, g_log, g_hs, g_exc>>
    /\ MethodFrame

\* the next of the three `... .error = 0` of lines 106-108
clear_errors_write ==
    /\ g_pc = "ce_write"
    /\ IF AccessOk
       THEN /\ Access("write", ErrorWrites[g_k], 0)
            /\ g_k' = g_k + 1
            /\ g_pc' = IF g_k = Len(ErrorWrites) THEN "ce_call" ELSE "ce_write"
            /\ UNCHANGED g_exc
       ELSE /\ Raise
            /\ UNCHANGED g_k
    /\ UNCHANGED <<g_handler, g_args, g_tmp, g_txt>>
    /\ MethodFrame

\* Mutant of clear_errors_call: the device call is not wrapped in try/except.
clear_errors_call_unguarded ==
    /\ g_pc = "ce_call"
    /\ IF AccessOk
       THEN Access("call", "clear_errors", 0) /\ UNCHANGED g_exc
                                              /\ g_pc' = AfterClearErrors
       ELSE Raise
    /\ UNCHANGED <<g_handler, g_args, g_k, g_tmp, g_txt>>
    /\ MethodFrame

\* try: self.odrv.clear_errors() except: pass
clear_errors_call ==
    /\ g_pc = "ce_call"
    /\ IF AccessOk
       THEN Access("call", "clear_errors", 0) /\ UNCHANGED g_exc
       ELSE Swallow
    /\ g_pc' = AfterClearErrors
    /\ UNCHANGED <<g_handler, g_args, g_k, g_tmp, g_txt>>
    /\ MethodFrame

clear_errors == clear_errors_check \/ clear_errors_write \/ clear_errors_call

\* --- ODriveWorker.reboot()
\* if self.odrv:
reboot_check ==
    /\ g_pc = "rb_check"
    /\ g_pc' = IF odrv # None THEN "rb_call" ELSE "ret"
    /\ UNCHANGED <<g_handler, g_args, g_k, g_tmp, g_txt, g_log, g_hs, g_exc>>
    /\ MethodFrame

\* Mutant of reboot_call: the device call is not wrapped in try/except.
reboot_call_unguarded ==
    /\ g_pc = "rb_call"
    /\ IF AccessOk
       THEN Access("call", "reboot", 0) /\ UNCHANGED g_exc /\ g_pc' = "rb_discard"
       ELSE Raise
    /\ UNCHANGED <<g_handler, g_args, g_k, g_tmp, g_txt>>
    /\ MethodFrame

\* try: self.odrv.reboot() except: pass
reboot_call ==
    /\ g_pc = "rb_call"
    /\ IF AccessOk
       THEN Access("call", "reboot", 0) /\ UNCHANGED g_exc
       ELSE Swallow
    /\ g_pc' = "rb_discard"
    /\ UNCHANGED <<g_handler, g_args, g_k, g_tmp, g_txt>>
    /\ MethodFrame

\* self.odrv = None
reboot_discard ==
    /\ g_pc = "rb_discard"
    /\ odrv' = None
    /\ g_pc' = "ret"
    /\ UNCHANGED <<g_handler, g_args, g_k, g_tmp, g_txt, g_log, g_hs, g_exc>>
    /\ UNCHANGED <<widgetVars, envVars, workerVars, pubVars, mode_index>>

reboot == reboot_check \/ reboot_call \/ reboot_discard

\* --- MainWindow handlers, dispatched by the event loop when it is idle.
\* What the user entered is an input of the handler; the text and slider
\* position a handler shows back are display state no command method reads.

\* Mutant of send_target: the mode selector is ignored.
send_target_always_pos(val) ==
    /\ g_args' = [NoArgs EXCEPT !.value = val, !.is_pos = TRUE]
    /\ g_pc' = "si_check"

\* is_pos_mode = (self.mode_select.currentIndex() == 0); both branches call
\* self.worker.set_input(val, is_pos_mode)
send_target(val) ==
    /\ g_args' = [NoArgs EXCEPT !.value = val, !.is_pos = (mode_index = 0)]
    /\ g_pc' = "si_check"

\* estop_btn.clicked: self.worker.set_state(AXIS_STATE_IDLE)
estop_clicked ==
    /\ g_pc = "idle"
    /\ g_handler' = "estop"
    /\ g_args' = [NoArgs EXCEPT !.state = AXIS_STATE_IDLE]
    /\ g_pc' = "ss_check"
    /\ UNCHANGED <<g_k, g_tmp, g_txt, g_log, g_hs, g_exc>>
    /\ MethodFrame

\* clear_btn.clicked: self.worker.clear_errors
clear_clicked ==
    /\ g_pc = "idle"
    /\ g_handler' = "clear"
    /\ g_pc' = "ce_check"
    /\ UNCHANGED <<g_args, g_k, g_tmp, g_txt, g_log, g_hs, g_exc>>
    /\ MethodFrame

\* reboot_btn.clicked: handle_reboot calls self.worker.reboot() (the status
\* label it sets afterwards is display only)
handle_reboot ==
    /\ g_pc = "idle"
    /\ g_handler' = "handle_reboot"
    /\ g_pc' = "rb_check"
    /\ UNCHANGED <<g_args, g_k, g_tmp, g_txt, g_log, g_hs, g_exc>>
    /\ MethodFrame

\* setpoint_slider.valueChanged(val): scaled_val = val / 100.0; send_target
handle_slider_input ==
    /\ g_pc = "idle"
    /\ \E val \in SliderValues :
          /\ g_handler' = "handle_slider_input"
          /\ send_target(val)
    /\ UNCHANGED <<g_k, g_tmp, g_txt, g_log, g_hs, g_exc>>
    /\ MethodFrame

\* target_input.returnPressed: val = float(text); setValue(int(val * 100))
\* with the slider's signals blocked; send_target(val); except ValueError: pass
handle_manual_input ==
    /\ g_pc = "idle"
    /\ \E t \in SetpointTexts :
          /\ g_handler' = "handle_manual_input"
          /\ g_txt' = <<t>>
          /\ IF IsFloat(t) /\ IsFinite(t)
             THEN /\ send_target(FloatValue(t))
                  /\ UNCHANGED g_exc
             ELSE /\ g_pc' = "ret"
                  /\ g_exc' = [err |-> "ValueError caught", at |-> g_pc]
                  /\ UNCHANGED g_args
    /\ UNCHANGED <<g_k, g_tmp, g_log, g_hs>>
    /\ MethodFrame

\* mode_select.currentIndexChanged: the user picks the other entry
\* (update_slider_limits sends nothing to the worker)
mode_selected ==
    /\ g_pc = "idle"
    /\ mode_index' = 1 - mode_index
    /\ UNCHANGED <<widgetVars, odrv, envVars, workerVars, pubVars, handlerVars>>

\* apply_tuning_btn.clicked: apply_tuning starts with self.worker.clear_errors()
apply_tuning_start ==
    /\ g_pc = "idle"
    /\ g_handler' = "apply_tuning"
    /\ g_pc' = "ce_check"
    /\ UNCHANGED <<g_args, g_k, g_tmp, g_txt, g_log, g_hs, g_exc>>
    /\ MethodFrame

\* the four float(<line edit>.text()) of lines 331-334, whatever the user
\* left in the line edits, and the mode of line 336;
\* except ValueError: print("Invalid numerical values")
apply_tuning_parse ==
    /\ g_pc = "at_parse"
    /\ \E txt \in [1..4 -> TextValues] :
          /\ g_txt' = txt
          /\ IF \A i \in 1..4 : IsFloat(txt[i])
             THEN /\ g_args' = [NoArgs EXCEPT
                                  !.gains = [i \in 1..4 |-> FloatValue(txt[i])],
                                  !.mode = IF mode_index = 0
                                           THEN CONTROL_MODE_POSITION_CONTROL
                                           ELSE CONTROL_MODE_VELOCITY_CONTROL]
                  /\ g_pc' = "ut_check"
                  /\ UNCHANGED g_exc
             ELSE /\ g_pc' = "ret"
                  /\ g_exc' = [err |-> "ValueError caught", at |-> g_pc]
                  /\ UNCHANGED g_args
    /\ UNCHANGED <<g_handler, g_k, g_tmp, g_log, g_hs>>
    /\ MethodFrame

\* time.sleep(0.1); self.worker.set_state(AXIS_STATE_CLOSED_LOOP_CONTROL)
apply_tuning_sleep ==
    /\ g_pc = "at_sleep"
    /\ g_args' = [g_args EXCEPT !.state = AXIS_STATE_CLOSED_LOOP_CONTROL]
    /\ g_pc' = "ss_check"
    /\ UNCHANGED <<g_handler, g_k, g_tmp, g_txt, g_log, g_hs, g_exc>>
    /\ MethodFrame

apply_tuning == apply_tuning_start \/ apply_tuning_parse \/ apply_tuning_sleep

\* The handler is over: control is back in the event loop.
handler_return ==
    /\ g_pc = "ret"
    /\ g_pc' = "idle"
    /\ g_handler' = "none"
    /\ g_args' = NoArgs
    /\ g_k' = 0
    /\ g_tmp' = 0
    /\ g_txt' = <<>>
    /\ g_log' = <<>>
    /\ g_hs' = NoHandles
    /\ g_exc' = NoExc
    /\ MethodFrame

Gui ==
    \/ set_state
    \/ update_tuning
    \/ set_input
    \/ clear_errors
    \/ reboot
    \/ estop_clicked
    \/ clear_clicked
    \/ handle_reboot
    \/ handle_slider_input
    \/ handle_manual_input
    \/ mode_selected
    \/ apply_tuning
    \/ handler_return

Next == Worker \/ Gui \/ DeviceChange


Spec == Init /\ [][Next]_vars

\* ------------------------------------------- MainWindow.update_telemetry
\* f"{x:.4f}" and f"{x:.6f}" of a gain kept in hundredths
Format4(v) == IF v = 250 THEN "2.5000" ELSE "0.0000"
Format6(v) == IF v = 250 THEN "2.500000" ELSE "0.000000"

\* self.worker.set_input(val, is_pos_mode) as send_target calls it
SetInputCall(val, index) == [m |-> "set_input", value |-> val, is_pos |-> (index = 0)]

\* Mutant of update_slider_limits: the slider's signals are not blocked, so
\* setValue(0) on a slider that is not at 0 emits valueChanged, which runs
\* handle_slider_input and sends the setpoint 0.
update_slider_limits_unblocked(index) ==
    /\ slider_range' = IF index = 0 THEN 100 ELSE 500
    /\ target_input' = "0.0"
    /\ slider_value' = 0
    /\ sent' = IF slider_value # 0 THEN <<SetInputCall(0, index)>> ELSE <<>>

\* update_slider_limits(index), run by mode_select.currentIndexChanged:
\* blockSignals(True); setRange; setText("0.0"); setValue(0);
\* blockSignals(False).  With its signals blocked the slider emits no
\* valueChanged, so handle_slider_input does not run.
update_slider_limits(index) ==
    /\ slider_range' = IF index = 0 THEN 100 ELSE 500
    /\ target_input' = "0.0"
    /\ slider_value' = 0
    /\ sent' = <<>>

\* update_telemetry(data) with "init_config" in data
update_telemetry_init ==
    /\ \E cfg \in [pos_gain : GainValues, vel_gain : GainValues,
                    vel_integrator_gain : GainValues, mode : ModeValues] :
          LET mode_idx == IF cfg.mode = 1 THEN 0 ELSE 1 IN
          /\ pos_g_input' = Format4(cfg.pos_gain)
          /\ vel_g_input' = Format6(cfg.vel_gain)
          /\ vel_i_input' = Format6(cfg.vel_integrator_gain)
          /\ mode_index' = mode_idx
          /\ IF mode_idx # mode_index
             THEN update_slider_limits(mode_idx)
             ELSE /\ UNCHANGED <<slider_range, target_input, slider_value>>
                  /\ sent' = <<>>
          /\ handled' = [kind |-> "init_config", mode |-> cfg.mode]
    /\ UNCHANGED <<histVars, current_axis_state, delivered>>
    /\ UNCHANGED <<odrv, envVars, workerVars, pubVars, handlerVars>>

\* Mutant of Trim: pop() instead of pop(0) drops the newest sample.
Trim_newest(list, over) == IF over THEN SubSeq(list, 1, Len(list) - 1) ELSE list

\* self.x_data.append(v); if len(self.iq_data) > self.max_points: pop(0)
\* (the test is on iq_data for all four lists)
Trim(list, over) == IF over THEN Tail(list) ELSE list

\* update_telemetry(data) with a telemetry snapshot: the labels it sets are
\* display only; sample n carries <<field, n>> so that samples are told apart
update_telemetry_data ==
    /\ delivered < MaxDelivered
    /\ \E state \in StateValues :
          current_axis_state' = state
    /\ delivered' = delivered + 1
    /\ LET n == delivered + 1
           over == Len(iq_data) + 1 > max_points
       IN /\ iq_data' = Trim(Append(iq_data, <<"iq", n>>), over)
          /\ vbus_data' = Trim(Append(vbus_data, <<"vbus", n>>), over)
          /\ pos_data' = Trim(Append(pos_data, <<"pos", n>>), over)
          /\ vel_data' = Trim(Append(vel_data, <<"vel", n>>), over)
    /\ handled' = [kind |-> "telemetry", mode |-> 0]
    /\ sent' = <<>>
    /\ UNCHANGED <<pos_g_input, vel_g_input, vel_i_input, target_input,
                   slider_range, slider_value, mode_index>>
    /\ UNCHANGED <<odrv, envVars, workerVars, pubVars, handlerVars>>

update_telemetry == update_telemetry_init \/ update_telemetry_data

NextGui == update_telemetry

\* The window alone, fed any sequence of events the worker can publish.
InitGui == Init /\ devOk

SpecGui == InitGui /\ [][NextGui]_vars

\* str(val / 100.0) for the slider positions the user picks
StrOfHundredths(val) ==
    CASE val = -50 -> "-0.5"
      [] val = 150 -> "1.5"
      [] OTHER -> "0.0"

\* setpoint_slider.valueChanged(val), as the window sees it: the user drags
\* the slider to a position of its range; handle_slider_input shows
\* str(val / 100.0) in the setpoint entry and calls send_target, which
\* calls self.worker.set_input(val, currentIndex() == 0).
slider_valueChanged ==
    /\ \E val \in SliderValues :
          /\ -slider_range <= val /\ val <= slider_range
          /\ val # slider_value
          /\ slider_value' = val
          /\ target_input' = StrOfHundredths(val)
          /\ sent' = <<SetInputCall(val, mode_index)>>
    /\ handled' = [kind |-> "valueChanged", mode |-> 0]
    /\ UNCHANGED <<histVars, current_axis_state, delivered, pos_g_input,
                   vel_g_input, vel_i_input, slider_range, mode_index>>
    /\ UNCHANGED <<odrv, envVars, workerVars, pubVars, handlerVars>>

\* The widgets of the window: the two kinds of worker event and the slider,
\* with the first MaxShown telemetry snapshots.
NextWidgets ==
    \/ update_telemetry_init
    \/ delivered < MaxShown /\ update_telemetry_data
    \/ slider_valueChanged

SpecWidgets == InitGui /\ [][NextWidgets]_vars

\* The worker thread alone with the device: run() scheduled again and again
\* for as long as the program lives (self.running is never cleared).
NextWorker == Worker \/ DeviceChange

SpecWorker == Init /\ [][NextWorker]_vars /\ WF_vars(Worker)

\* ================================================================ claims
\* The payload is what one complete pass reads: the ten fields, in order,
\* all through the same handle.
IsFullPass(fields) ==
    /\ Len(fields) = Len(TelemetryFields)
    /\ \A i \in 1..Len(fields) :
          fields[i].f = TelemetryFields[i] /\ fields[i].h = fields[1].h

\* The worker takes a step.
WorkerStep == w_pc' # w_pc

\* The GUI thread takes a step.
GuiStep == g_pc' # g_pc

\* C1: once find_any has returned a handle, exactly one init_config event is
\* emitted before any telemetry snapshot read through that handle is emitted,
\* whatever reads fail (the read-back's included).
C1_OneInitBeforeTelemetry ==
    /\ initCount <= 1
    /\ lastData.kind = "telemetry" => initCount = 1

\* C2: every telemetry snapshot emitted holds all ten fields of one pass
\* through one handle; a pass in which a read fails (the handle discarded
\* mid-pass included) emits nothing on data_received and ends with
\* connection_status(False, "Disconnected").
C2_FullSnapshotOrDisconnected ==
    [][ /\ lastData'.kind = "telemetry" => IsFullPass(lastData'.fields)
        /\ (w_pc = "pass" /\ ~AccessOk /\ WorkerStep) => w_pc' = "except"
        /\ (w_pc \in {"except", "except_emit"} /\ WorkerStep) =>
              /\ lastData' = lastData
              /\ w_pc' \in {"except_emit", "loop"}
              /\ w_pc' = "loop" => lastStatus' = "Disconnected"
      ]_vars

\* C2 witness: a pass lost its handle after some of its reads (reboot from the
\* GUI thread), with a complete snapshot published earlier.
C2_Witness ==
    /\ w_pc = "except"
    /\ Len(w_data) \in 1..(Len(TelemetryFields) - 1)
    /\ odrv = None
    /\ lastData.kind = "telemetry"

\* C3: after a failed telemetry pass the worker discards the handle, publishes
\* Disconnected, and in its next loop iteration publishes Searching and calls
\* find_any; no snapshot is published until find_any returns a handle again.
C3_FailureReentersSearching ==
    [][ /\ (w_pc = "except" /\ WorkerStep) => odrv' = None /\ w_pc' = "except_emit"
        /\ (w_pc = "except_emit" /\ WorkerStep) =>
              lastStatus' = "Disconnected" /\ odrv' = None /\ w_pc' = "loop"
        /\ (failedSince /\ w_pc = "loop" /\ WorkerStep) => w_pc' = "emit_searching"
        /\ (failedSince /\ w_pc = "emit_searching" /\ WorkerStep) =>
              lastStatus' = "Searching" /\ w_pc' = "find"
        /\ (failedSince /\ failedSince') => lastData' = lastData
        /\ failedSince' =>
              w_pc' \in {"except_emit", "loop", "emit_searching", "find", "backoff"}
      ]_vars

\* C3 witness: the worker is back in find_any after a failed pass.
C3_Witness ==
    /\ failedSince
    /\ w_pc = "find"
    /\ lastStatus = "Searching"
    /\ lastData.kind = "telemetry"

\* C4: a failed device write of set_state, update_tuning or set_input
\* invalidates the connection: the handle is discarded and the status is
\* Disconnected when the method is left.
C4_WriteFailureInvalidates ==
    (/\ g_pc = "ret"
     /\ g_exc.err = "DeviceError"
     /\ g_exc.at \in {"ss_write", "ut_write", "si_write"})
    => (odrv = None /\ lastStatus = "Disconnected")

\* The worker has read some, and not all, of the fields of a telemetry pass
\* or of the read-back.
WorkerMidPass ==
    \/ w_pc = "pass" /\ Len(w_data) \in 1..(Len(TelemetryFields) - 1)
    \/ w_pc = "readback" /\ Len(w_data) \in 1..(Len(ConfigFields) - 1)

\* The GUI thread performs a device write or command in this step.
GuiWrite ==
    /\ Len(g_log') = Len(g_log) + 1
    /\ g_log'[Len(g_log')].a \in {"write", "call"}

\* C5: no command write of the GUI thread executes while a read pass or the
\* read-back of the worker is in progress.
C5_NoWriteInsideReadPass == [][GuiWrite => ~WorkerMidPass]_vars

\* C6: a handler that finds a non-numeric text in a line edit it reads has
\* performed no device access.
C6_NonNumericNoDeviceAccess ==
    (\E i \in 1..Len(g_txt) : ~IsFloat(g_txt[i])) => g_log = <<>>

\* The accesses update_tuning makes, as a mock device would record them.
IsTuningAccess(e) ==
    e.f \in {"control_mode", "input_mode", "vel_limit", "pos_gain", "vel_gain",
             "vel_integrator_gain", "pos_estimate", "input_pos", "input_vel"}

TuningLog == SelectSeq(g_log, IsTuningAccess)

ExpectedTuningLog ==
    << <<"write", "control_mode">>, <<"write", "input_mode">>, <<"write", "vel_limit">>,
       <<"write", "pos_gain">>, <<"write", "vel_gain">>,
       <<"write", "vel_integrator_gain">>, <<"read", "pos_estimate">>,
       <<"write", "input_pos">>, <<"write", "input_vel">> >>

\* C7: the writes of update_tuning are, wherever it stops, a prefix of
\* control_mode, input_mode (1), vel_limit, pos_gain, vel_gain,
\* vel_integrator_gain, input_pos (the pos_estimate just read), input_vel (0);
\* when it returns normally it has made all of them or, without a handle, none.
C7_TuningWriteOrder ==
    g_handler = "apply_tuning" =>
        /\ Len(TuningLog) <= Len(ExpectedTuningLog)
        /\ \A i \in 1..Len(TuningLog) :
              <<TuningLog[i].a, TuningLog[i].f>> = ExpectedTuningLog[i]
        /\ Len(TuningLog) >= 1 => TuningLog[1].v = g_args.mode
        /\ Len(TuningLog) >= 2 => TuningLog[2].v = 1
        /\ Len(TuningLog) >= 8 => TuningLog[8].v = TuningLog[7].v
        /\ Len(TuningLog) >= 9 => TuningLog[9].v = 0
        /\ g_pc \in {"at_sleep", "ss_check", "ss_write"} =>
              Len(TuningLog) \in {0, Len(ExpectedTuningLog)}

\* C7 witness: update_tuning has returned after all its writes, having read a
\* non-zero position.
C7_Witness ==
    /\ g_handler = "apply_tuning"
    /\ g_pc = "at_sleep"
    /\ Len(TuningLog) = Len(ExpectedTuningLog)
    /\ TuningLog[8].v = 325

\* C8: reboot() that found a handle ends with self.odrv = None whether the
\* device call succeeded or raised, lets no exception out, and afterwards only
\* a successful find_any of the worker stores a handle again.
C8_RebootDiscards ==
    [][ /\ (g_pc = "rb_call" /\ GuiStep) => g_pc' = "rb_discard"
        /\ (g_pc = "rb_discard" /\ GuiStep) => odrv' = None /\ g_pc' = "ret"
        /\ (g_handler' = "handle_reboot") =>
              g_exc'.err \notin {"AttributeError", "DeviceError"}
        /\ (odrv = None /\ odrv' # None) =>
              w_pc = "find" /\ w_pc' = "readback" /\ found' = found + 1 /\ odrv' = found'
      ]_vars

\* C8 witness: reboot() has returned after the device call raised, and the
\* handle is gone.
C8_Witness ==
    /\ g_handler = "handle_reboot"
    /\ g_pc = "ret"
    /\ g_exc = [err |-> "swallowed", at |-> "rb_call"]
    /\ odrv = None

SetpointHandler == g_handler \in {"handle_slider_input", "handle_manual_input"}

\* C9: one setpoint event writes at most one setpoint: input_pos when the mode
\* selector is at index 0, input_vel otherwise, exactly that one when the
\* write on a live handle succeeds, and none when there is no handle.
C9_OneSetpointWrite ==
    [][ SetpointHandler' =>
          /\ Len(g_log') <= 1
          /\ Len(g_log') = 1 =>
                g_log'[1] = [a |-> "write",
                             f |-> IF mode_index' = 0 THEN "input_pos" ELSE "input_vel",
                             v |-> g_args'.value]
          /\ (g_pc = "si_write" /\ AccessOk /\ GuiStep) => Len(g_log') = 1
          /\ (g_pc = "si_check" /\ odrv = None /\ GuiStep) =>
                g_pc' = "ret" /\ g_log' = <<>>
      ]_vars

\* C9 witness: a slider event in velocity mode has written input_vel only.
C9_Witness ==
    /\ g_handler = "handle_slider_input"
    /\ g_pc = "ret"
    /\ mode_index = 1
    /\ g_log = <<[a |-> "write", f |-> "input_vel", v |-> 150]>>

\* C10: the four history lists always have one length, at most max_points; a
\* sample arriving at full length evicts the oldest sample of each list; an
\* init_config event adds no sample.
C10_BoundedFifoHistory ==
    [][ /\ Len(iq_data') <= max_points
        /\ Len(vbus_data') = Len(iq_data')
        /\ Len(pos_data') = Len(iq_data')
        /\ Len(vel_data') = Len(iq_data')
        /\ delivered' = delivered => UNCHANGED histVars
        /\ delivered' # delivered =>
              LET n == delivered'
                  Pushed(list, f) ==
                      IF Len(list) = max_points
                      THEN Append(Tail(list), <<f, n>>)
                      ELSE Append(list, <<f, n>>)
              IN /\ iq_data' = Pushed(iq_data, "iq")
                 /\ vbus_data' = Pushed(vbus_data, "vbus")
                 /\ pos_data' = Pushed(pos_data, "pos")
                 /\ vel_data' = Pushed(vel_data, "vel")
      ]_vars

\* C10 witness: the lists are full and the two oldest samples are gone.
C10_Witness ==
    /\ Len(iq_data) = max_points
    /\ iq_data[1] = <<"iq", 3>>
    /\ vel_data[max_points] = <<"vel", max_points + 2>>

\* Where a command method returns to from the position pc.
ReturnOf(pc) ==
    CASE MethodOf(pc) = "update_tuning" -> "at_sleep"
      [] MethodOf(pc) = "clear_errors" -> AfterClearErrors
      [] OTHER -> "ret"

\* The GUI thread is at the `if self.odrv:` of a command method.
AtCheck == g_pc \in {"ss_check", "ut_check", "si_check", "ce_check", "rb_check"}

\* C11: a command method (set_state, update_tuning, set_input, clear_errors,
\* reboot) entered while the handle is None returns at once: it reads, writes
\* and calls nothing on the device, leaves the handle None and raises nothing.
C11_NoHandleNoOp ==
    [][(AtCheck /\ odrv = None /\ GuiStep) =>
          /\ g_pc' = ReturnOf(g_pc)
          /\ g_log' = g_log
          /\ g_hs' = g_hs
          /\ g_exc' = g_exc
          /\ odrv' = None]_vars

\* apply_tuning ran clear_errors, update_tuning and set_state, each of them
\* with no handle: nothing was accessed and nothing was raised.
C11_Witness ==
    /\ g_handler = "apply_tuning"
    /\ g_pc = "ret"
    /\ Len(g_txt) = 4
    /\ g_log = <<>>
    /\ g_exc = NoExc

\* The accesses clear_errors makes on a live handle, in order.
ClearErrorsLog ==
    [i \in 1..Len(ErrorWrites) |-> LogEntry("write", ErrorWrites[i], 0)]
        \o <<LogEntry("call", "clear_errors", 0)>>

\* C12: clear_errors writes 0 to the axis error, then the encoder error, then
\* the motor error, and only then invokes the device's clear_errors; when that
\* call fails the three writes stay done, no exception leaves the method and
\* the stored handle is kept.
C12_ClearErrorsSwallowsCall ==
    [][GuiStep =>
          /\ MethodOf(g_pc) = "clear_errors" =>
                /\ Len(g_log') <= Len(ClearErrorsLog)
                /\ g_log' = SubSeq(ClearErrorsLog, 1, Len(g_log'))
          /\ g_pc = "ce_call" =>
                /\ SubSeq(g_log', 1, Len(ErrorWrites)) = SubSeq(ClearErrorsLog, 1, Len(ErrorWrites))
                /\ g_pc' = AfterClearErrors
                /\ g_exc'.err \in {"none", "swallowed"}
                /\ g_exc'.err = "none" <=> g_log' = ClearErrorsLog
                /\ odrv' = odrv]_vars

\* The device call of clear_errors failed on a live handle after the three
\* writes had been made.
C12_Witness ==
    /\ g_handler = "clear"
    /\ g_pc = "ret"
    /\ g_exc = [err |-> "swallowed", at |-> "ce_call"]
    /\ Len(g_log) = Len(ErrorWrites)
    /\ odrv # None

\* The worker emits on connection_status.
StatusStep == WorkerStep /\ w_pc \in {"emit_searching", "emit_connected", "except_emit"}

\* The status cycle: from the status emitted last to the status emitted next.
StatusCycle ==
    { <<"none", "Searching">>, <<"Searching", "Searching">>,
      <<"Searching", "Connected">>, <<"Connected", "Disconnected">>,
      <<"Disconnected", "Searching">> }

\* C13: the statuses are emitted in the cycle Searching, Connected,
\* Disconnected, Searching: Connected only after Searching, Disconnected only
\* after Connected, Searching only at the start, after Disconnected or after
\* Searching, whatever the device does and however reboot() interleaves.
C13_StatusCycle ==
    [][StatusStep => <<lastStatus, lastStatus'>> \in StatusCycle]_vars

\* From some point on find_any finds the device and every read succeeds.
DeviceStaysUp == <>[](devOk /\ found < MaxHandles)

\* C14: a failed discovery is always followed by another attempt, and if from
\* some point on the device is reachable and every read succeeds, the worker
\* eventually emits Connected and emits telemetry snapshots after it.
C14_EventuallyConnected ==
    /\ (w_pc = "backoff" /\ odrv = None) ~> (w_pc = "find")
    /\ DeviceStaysUp => <>(lastStatus = "Connected" /\ lastData.kind = "telemetry")

\* C15: the mode selector round trip: an init_config event carrying the
\* control_mode apply_tuning writes for "Position"
\* (CONTROL_MODE_POSITION_CONTROL) puts the selector at index 0, one
\* carrying the value written for "Velocity"
\* (CONTROL_MODE_VELOCITY_CONTROL) puts it at index 1.
C15_ModeRoundTrip ==
    handled.kind = "init_config" =>
       /\ handled.mode = CONTROL_MODE_POSITION_CONTROL => mode_index = 0
       /\ handled.mode = CONTROL_MODE_VELOCITY_CONTROL => mode_index = 1

\* C18: handling an init_config event makes no call to the worker (the mode
\* selector it sets resets the slider with the slider's signals blocked) and
\* leaves current_axis_state and the four history lists as they were; only
\* the gain texts, the mode selector, the slider range and value and the
\* setpoint text may change.
C18_InitConfigSendsNothing ==
    [][handled'.kind = "init_config" =>
          /\ sent' = <<>>
          /\ UNCHANGED <<histVars, current_axis_state, delivered>>
          /\ UNCHANGED <<odrv, envVars, workerVars, pubVars, handlerVars>>]_vars

\* An init_config event has moved the selector to "Velocity" and reset a
\* slider, after snapshots had been plotted and the axis seen in closed loop.
C18_Witness ==
    /\ handled.kind = "init_config"
    /\ mode_index = 1
    /\ slider_range = 500 /\ slider_value = 0 /\ target_input = "0.0"
    /\ pos_g_input = Format4(250)
    /\ Len(iq_data) = MaxShown
    /\ current_axis_state = AXIS_STATE_CLOSED_LOOP_CONTROL
    /\ sent = <<>>

\* apply_tuning has written requested_state (AXIS_STATE_CLOSED_LOOP_CONTROL is
\* the only state it requests).
WroteClosedLoop == g_handler = "apply_tuning" /\ g_hs["set_state"] # {}

\* C16: when apply_tuning writes requested_state =
\* AXIS_STATE_CLOSED_LOOP_CONTROL, update_tuning of the same call has made
\* all its accesses before, through the same handle, however the worker
\* discards and stores handles in between.
C16_ClosedLoopAfterTuning ==
    WroteClosedLoop =>
        /\ Len(TuningLog) = Len(ExpectedTuningLog)
        /\ g_hs["update_tuning"] = g_hs["set_state"]

\* The command methods whose accesses all follow one `if self.odrv:`.
CheckedMethods == {"set_state", "update_tuning", "set_input", "clear_errors"}

\* C17: a command method never uses a handle the worker has discarded: it
\* never raises for dereferencing None after its `if self.odrv:`, and all
\* the accesses it makes go through one handle.
C17_NoDiscardedHandle ==
    /\ ~(g_exc.err = "AttributeError" /\ MethodOf(g_exc.at) \in CheckedMethods)
    /\ \A m \in CheckedMethods : Cardinality(g_hs[m]) <= 1

====
